---- MODULE Spec2Model ----
(***************************************************************************)
(* doodle-mail-server: the room and message store (the Room and Message    *)
(* collections behind helpers/dbhelper) and the request handlers that act  *)
(* on it, one action per stretch of handler code between two store calls.  *)
(*                                                                         *)
(* Two revisions of the server are modelled over the same store:           *)
(*   - the socket server (src/server.ts 1-385) with helpers/dbhelper.ts    *)
(*     (src/unnamed/part_010): specification Spec;                         *)
(*   - the REST server (src/server.ts 387-961) with dbhelper.ts            *)
(*     (src/unnamed/part_005): specification SpecRest.                     *)
(* SpecAll lets a client use the handlers of either revision.              *)
(***************************************************************************)
EXTENDS Integers, Sequences, FiniteSets, TLC

(* ---- bounds of the model ---- *)
NumClients == 2
MaxRooms == 2
MaxParticipants == 2
MaxMessages == 3
MaxByte == 1
MaxUsers == 3

(* ---- program constants ---- *)
CodeLength == 4

Clients == 1..NumClients
Sockets == Clients
UserNames == {"pleb", "jarl"}

(* socket.data.user as the connection middleware sets it: the userName of *)
(* the handshake and the socket's id.                                     *)
SocketUser(name, s) == [userName |-> name, id |-> s]
Users == {SocketUser(n, s) : n \in UserNames, s \in Sockets}

(* The first symbols of nanoid's url alphabet ("useandom-26T1..."). *)
urlAlphabet == <<"u", "s", "e", "a">>

(* The random bytes nanoid consumes for an id of `size` symbols; the model *)
(* lets the last byte vary over 0..MaxByte and fixes the others at 0.      *)
RandomBytes(size) ==
  {[i \in 1..size |-> IF i = size THEN b ELSE 0] : b \in 0..MaxByte}

(* nanoid.nanoid(size): one symbol of the alphabet per random byte. *)
nanoid(size) ==
  {[i \in 1..size |-> urlAlphabet[bytes[i] + 1]] : bytes \in RandomBytes(size)}

(* The entry codes a client may send with a join or leave request. *)
Codes == nanoid(CodeLength)

null == [_id |-> 0]

(* The id of a request body that carries none. *)
noId == null._id

VARIABLES
  Room,        \* the Room collection: a set of room documents
  Message,     \* the Message collection: a set of message documents
  nextRoomId,  \* the _id the store gives the next room document
  nextMsgId,   \* the _id the store gives the next message document
  userName,    \* socket.handshake.auth.userName of each socket
  pc,          \* where each client's request stands
  op,          \* the request each client sent last
  arg,         \* its roomCode argument
  roomCode,    \* generateUniqueRoomCode's local roomCode
  room,        \* the room document leaveRoom's update returned to its then
  writes,      \* the message writes of a rooms:messages:send request
  result,      \* the handler's result: the room the last finished write returned
  deleting,    \* the messageId and roomId of a rooms:messages:delete request
  User,        \* the User collection: a set of user profiles
  nextUserId,  \* the _id the store gives the next user profile
  body,        \* req.body of a POST /users or PUT /users request in progress
  out          \* what the request has emitted or answered so far

vars == <<Room, Message, nextRoomId, nextMsgId, userName, pc, op, arg,
          roomCode, room, writes, result, deleting, User, nextUserId, body, out>>

user(s) == SocketUser(userName[s], s)

NoCode == <<>>

(* The message contents a client may send. *)
MessageData ==
  {[title |-> t, imageData |-> "img", background |-> "white"] : t \in {"m1", "m2"}}

(* The email addresses a client may send. *)
Emails == {"test@test.com", "test2@test.com"}

(* bcrypt.hash(password, 8): the hash carries its version and cost, and *)
(* is never the password itself.                                        *)
hash(password) == "$2b$08$" \o password

(* The first two profiles the tests seed (testdb.seed); the tests log *)
(* them in with the password 'abcd'.                                  *)
seededUsers ==
  {[_id |-> 1, name |-> "Jim Test", email |-> "test@test.com",
    password |-> hash("abcd")],
   [_id |-> 2, name |-> "Bob Test", email |-> "test2@test.com",
    password |-> hash("abcd")]}

(* The store of a fresh deployment. *)
emptyStore ==
  /\ Room = {}
  /\ Message = {}
  /\ User = {}
  /\ nextRoomId = 1
  /\ nextMsgId = 1
  /\ nextUserId = 1

(* The titles of the seeded messages. *)
seededTitles == <<"m1", "m2">>

(* The entry code of the seeded room. *)
seededCode == CHOOSE c \in nanoid(CodeLength) : TRUE

(* A seeded store: one room with the participants `members`, and one *)
(* message of each of them.                                          *)
seededRoom(members) ==
  /\ Room = {[_id |-> 1, entryCode |-> seededCode,
              participants |-> members,
              messages |-> [i \in 1..Len(members) |-> i]]}
  /\ Message = {[_id |-> i, author |-> members[i], room |-> 1,
                 title |-> seededTitles[i], date |-> i, imageData |-> "img",
                 background |-> "white"] : i \in 1..Len(members)}
  /\ User = seededUsers
  /\ nextRoomId = 2
  /\ nextMsgId = Len(members) + 1
  /\ nextUserId = 3

(* The store as the tests seed it (testdb.seed): one room with two        *)
(* participants and a message of each of them. It is the store after     *)
(* socket 1 created the room, socket 2 joined it and each sent a message. *)
seededStore == seededRoom(<<user(1), user(2)>>)

(* The same store before the second participant joined. *)
seededStoreSolo == seededRoom(<<user(1)>>)

Init ==
  /\ userName \in {names \in [Sockets -> UserNames] : names[1] = "pleb"}
  /\ emptyStore \/ seededStore \/ seededStoreSolo
  /\ pc = [s \in Sockets |-> "idle"]
  /\ op = [s \in Sockets |-> "none"]
  /\ arg = [s \in Sockets |-> NoCode]
  /\ roomCode = [s \in Sockets |-> NoCode]
  /\ room = [s \in Sockets |-> null]
  /\ writes = [s \in Sockets |-> <<>>]
  /\ body = [s \in Sockets |-> null]
  /\ result = [s \in Sockets |-> null]
  /\ deleting = [s \in Sockets |-> null]
  /\ out = [s \in Sockets |-> {}]

(* ---- the store primitives ---- *)

Min(S) == CHOOSE x \in S : \A y \in S : x <= y

(* Model.findOne(filter): the first matching document in insertion order. *)
(* `found` is the set of documents that match the filter.                  *)
findOne(found) ==
  IF found = {} THEN null
  ELSE CHOOSE d \in found : d._id = Min({e._id : e \in found})

findById(coll, id) == findOne({d \in coll : d._id = id})

pushOverLast(array, v) ==
  IF array = <<>> THEN <<v>> ELSE [array EXCEPT ![Len(array)] = v]

(* $push and $pull on an array field. *)
push(array, v) == Append(array, v)
pull(array, v) == SelectSeq(array, LAMBDA x : x # v)

(* A collection after one of its documents was replaced. *)
replace(coll, old, new) == (coll \ {old}) \cup {new}

(* ---- helpers/dbhelper.ts (src/unnamed/part_010) ---- *)

getRoomInfo(code) == findOne({d \in Room : d.entryCode = code})

newRoomRecycled(u, code) ==
  [_id |-> Min((1..nextRoomId) \ {r._id : r \in Room}), entryCode |-> code,
   participants |-> <<u>>, messages |-> <<>>]

newRoomEmpty(u, code) ==
  [_id |-> nextRoomId, entryCode |-> code, participants |-> <<>>, messages |-> <<>>]

(* The document createRoom hands to Room.create. *)
newRoom(u, code) ==
  [_id |-> nextRoomId, entryCode |-> code, participants |-> <<u>>, messages |-> <<>>]

joinedRoomReset(r, u) == [r EXCEPT !.participants = <<u>>]

(* The document joinRoom's findOneAndUpdate writes for room r. *)
joinedRoom(r, u) == [r EXCEPT !.participants = push(r.participants, u)]

leftRoomFirstOnly(r, u) ==
  [r EXCEPT !.participants =
     IF r.participants # <<>> /\ Head(r.participants) = u
     THEN Tail(r.participants) ELSE r.participants]

(* The document leaveRoom's findOneAndUpdate writes for room r. *)
leftRoom(r, u) == [r EXCEPT !.participants = pull(r.participants, u)]

(* ---- the socket server (src/server.ts 1-385) ---- *)

(* rooms:create, up to the first await: the generator draws its first code. *)
createRoom(s) ==
  /\ pc[s] = "idle"
  /\ userName[s] # ""
  /\ \E code \in nanoid(CodeLength) : roomCode' = [roomCode EXCEPT ![s] = code]
  /\ pc' = [pc EXCEPT ![s] = "gen"]
  /\ op' = [op EXCEPT ![s] = "create"]
  /\ out' = [out EXCEPT ![s] = {}]
  /\ UNCHANGED <<deleting, User, nextUserId, body, Room, Message, nextRoomId, nextMsgId, userName, arg, room, writes, result>>

codeIsTakenInverted(r) == r = null

(* generateUniqueRoomCode's test of the store's answer: room != null. *)
codeIsTaken(r) == r # null

(* One turn of generateUniqueRoomCode's loop: the store answers the query *)
(* for roomCode; a taken code is redrawn, a free one is returned.         *)
generateUniqueRoomCode(s) ==
  /\ pc[s] = "gen"
  /\ IF codeIsTaken(getRoomInfo(roomCode[s]))
     THEN /\ \E code \in nanoid(CodeLength) :
               roomCode' = [roomCode EXCEPT ![s] = code]
          /\ pc' = pc
     ELSE /\ roomCode' = roomCode
          /\ pc' = [pc EXCEPT ![s] = "insert"]
  /\ UNCHANGED <<deleting, User, nextUserId, body, Room, Message, nextRoomId, nextMsgId, userName, op, arg, room, writes, result, out>>

(* dbhelper.createRoom and the handler's then: the room is inserted and *)
(* room:create is emitted.                                              *)
insertRoom(s) ==
  /\ pc[s] = "insert"
  /\ nextRoomId <= MaxRooms
  /\ Room' = Room \cup {newRoom(user(s), roomCode[s])}
  /\ nextRoomId' = nextRoomId + 1
  /\ out' = [out EXCEPT ![s] = @ \cup {"room:create"}]
  /\ pc' = [pc EXCEPT ![s] = "idle"]
  /\ roomCode' = [roomCode EXCEPT ![s] = NoCode]
  /\ UNCHANGED <<deleting, User, nextUserId, body, Message, nextMsgId, userName, op, arg, room, writes, result>>

hasUserName(r, name) ==
  \E i \in 1..Len(r.participants) : r.participants[i].userName = name

(* rooms:join up to dbhelper.joinRoom: the store answers getRoomInfo; a   *)
(* missing room is reported and the handler returns; a participant of the *)
(* same userName is reported, and the handler goes on to dbhelper.joinRoom.*)
joinRoom(s, code) ==
  /\ pc[s] = "idle"
  /\ userName[s] # ""
  /\ op' = [op EXCEPT ![s] = "join"]
  /\ LET found == getRoomInfo(code)
     IN IF found = null
        THEN /\ out' = [out EXCEPT ![s] = {"error"}]
             /\ UNCHANGED <<pc, arg>>
        ELSE /\ out' = [out EXCEPT ![s] =
                          IF hasUserName(found, userName[s]) THEN {"error"} ELSE {}]
             /\ pc' = [pc EXCEPT ![s] = "joinPush"]
             /\ arg' = [arg EXCEPT ![s] = code]
  /\ UNCHANGED <<deleting, User, nextUserId, body, Room, Message, nextRoomId, nextMsgId, userName, roomCode, room,
                 writes, result>>

(* dbhelper.joinRoom (findOneAndUpdate with $push) and the handler's then: *)
(* room:join is emitted with whatever the update returned.                 *)
joinPush(s) ==
  /\ pc[s] = "joinPush"
  /\ LET found == getRoomInfo(arg[s])
     IN IF found = null
        THEN Room' = Room
        ELSE /\ Len(found.participants) < MaxParticipants
             /\ Room' = replace(Room, found, joinedRoom(found, user(s)))
  /\ out' = [out EXCEPT ![s] = @ \cup {"room:join"}]
  /\ pc' = [pc EXCEPT ![s] = "idle"]
  /\ arg' = [arg EXCEPT ![s] = NoCode]
  /\ UNCHANGED <<deleting, User, nextUserId, body, Message, nextRoomId, nextMsgId, userName, op, roomCode, room,
                 writes, result>>

(* socket.data.room is assigned nowhere in the socket server. *)
socketDataRoomIsSet == FALSE

(* rooms:leave: dbhelper.leaveRoom (findOneAndUpdate with $pull, resolved *)
(* whether or not a room matched) and the handler's then, which assigns   *)
(* socket.data.room.code before it emits room:leave; the TypeError of     *)
(* that assignment reaches the catch, which emits error.                  *)
leaveRoom(s, code) ==
  /\ pc[s] = "idle"
  /\ userName[s] # ""
  /\ op' = [op EXCEPT ![s] = "leave"]
  /\ LET found == getRoomInfo(code)
     IN IF found = null
        THEN Room' = Room
        ELSE Room' = replace(Room, found, leftRoom(found, user(s)))
  /\ out' = [out EXCEPT ![s] =
               IF socketDataRoomIsSet THEN {"room:leave"} ELSE {"error"}]
  /\ UNCHANGED <<deleting, User, nextUserId, body, Message, nextRoomId, nextMsgId, userName, pc, arg, roomCode, room,
                 writes, result>>

MaxBatch == 2
Batches == UNION {[1..n -> MessageData] : n \in 1..MaxBatch}
RoomIds == 1..MaxRooms

(* rooms:messages:send up to Promise.all: one write is started for every *)
(* message of the request.                                               *)
sendMessageToRoom(s, roomId, messages) ==
  /\ pc[s] = "idle"
  /\ userName[s] # ""
  /\ op' = [op EXCEPT ![s] = "send"]
  /\ pc' = [pc EXCEPT ![s] = "send"]
  /\ writes' = [writes EXCEPT ![s] =
        [i \in 1..Len(messages) |->
           [stage |-> "create", roomId |-> roomId, message |-> messages[i],
            _id |-> 0, room |-> null]]]
  /\ result' = [result EXCEPT ![s] = null]
  /\ out' = [out EXCEPT ![s] = {}]
  /\ UNCHANGED <<deleting, User, nextUserId, body, Room, Message, nextRoomId, nextMsgId, userName, arg, roomCode, room>>

newMessage(u, w) ==
  [_id |-> nextMsgId, author |-> u, room |-> w.roomId, title |-> w.message.title,
   date |-> nextMsgId, imageData |-> w.message.imageData,
   background |-> w.message.background]

(* dbhelper.sendMessageToRoom, first store call: Message.create. *)
messageCreate(s, i) ==
  /\ pc[s] = "send"
  /\ i \in 1..Len(writes[s])
  /\ writes[s][i].stage = "create"
  /\ nextMsgId <= MaxMessages
  /\ Message' = Message \cup {newMessage(user(s), writes[s][i])}
  /\ nextMsgId' = nextMsgId + 1
  /\ writes' = [writes EXCEPT ![s][i].stage = "push", ![s][i]._id = nextMsgId]
  /\ UNCHANGED <<deleting, User, nextUserId, body, Room, nextRoomId, userName, pc, op, arg, roomCode, room, result, out>>

postedRoomReset(r, messageId) == [r EXCEPT !.messages = <<messageId>>]

(* The document sendMessageToRoom's findByIdAndUpdate writes for room r. *)
postedRoom(r, messageId) == [r EXCEPT !.messages = push(r.messages, messageId)]

(* dbhelper.sendMessageToRoom, second store call: findByIdAndUpdate      *)
(* pushes the message's id to the room found by id and returns the      *)
(* document it wrote (or null); its reply is still to come.             *)
messagePush(s, i) ==
  /\ pc[s] = "send"
  /\ i \in 1..Len(writes[s])
  /\ writes[s][i].stage = "push"
  /\ LET found == findById(Room, writes[s][i].roomId)
         updated == IF found = null THEN null ELSE postedRoom(found, writes[s][i]._id)
     IN /\ Room' = IF found = null THEN Room ELSE replace(Room, found, updated)
        /\ writes' = [writes EXCEPT ![s][i].stage = "reply", ![s][i].room = updated]
  /\ UNCHANGED <<deleting, User, nextUserId, body, Message, nextRoomId, nextMsgId, userName,
                 pc, op, arg, roomCode, room, result, out>>

(* Range of a sequence. *)
Range(seq) == {seq[i] : i \in 1..Len(seq)}

(* populate's select '-room': the message document without its room. *)
selected(m) ==
  [_id |-> m._id, author |-> m.author, title |-> m.title, date |-> m.date,
   imageData |-> m.imageData, background |-> m.background]

(* populate({path: 'messages', select: '-room', options: {sort: {date: *)
(* 'desc'}}}): the stored documents the ids refer to, newest first; an  *)
(* id whose document is gone yields no entry.                           *)
populate(coll, ids) ==
  LET docs == {m \in coll : m._id \in Range(ids)}
      sorted == CHOOSE seq \in [1..Cardinality(docs) -> docs] :
                  /\ \A i, j \in 1..Cardinality(docs) : i # j => seq[i] # seq[j]
                  /\ \A i, j \in 1..Cardinality(docs) : i < j => seq[i].date >= seq[j].date
  IN [i \in 1..Cardinality(docs) |-> selected(sorted[i])]

(* Room.findById(roomId).populate(...) over the collections rooms and *)
(* messages: the room with its messages populated, or null.           *)
findByIdPopulated(rooms, messages, roomId) ==
  LET found == findById(rooms, roomId)
  IN IF found = null THEN null
     ELSE [found EXCEPT !.messages = populate(messages, found.messages)]

(* dbhelper.getRoomMessages. *)
getRoomMessages(roomId) == findByIdPopulated(Room, Message, roomId)

(* The room a write of sendMessageToRoom resolves with: the document its *)
(* update returned, with the messages populate finds for it.             *)
resolved(doc) ==
  IF doc = null THEN null ELSE [doc EXCEPT !.messages = populate(Message, doc.messages)]

(* The reply to a write of rooms:messages:send: populate has run and the *)
(* write's then keeps the room as result. Once every write has resolved, *)
(* Promise.all's then emits messages with result.messages, or error for  *)
(* a null result.                                                        *)
messageReply(s, i) ==
  /\ pc[s] = "send"
  /\ i \in 1..Len(writes[s])
  /\ writes[s][i].stage = "reply"
  /\ IF \A j \in 1..Len(writes[s]) : j # i => writes[s][j].stage = "done"
     THEN /\ out' = [out EXCEPT ![s] =
                       IF resolved(writes[s][i].room) # null
                       THEN {"messages"} ELSE {"error"}]
          /\ pc' = [pc EXCEPT ![s] = "idle"]
          /\ writes' = [writes EXCEPT ![s] = <<>>]
          /\ result' = [result EXCEPT ![s] = null]
     ELSE /\ writes' = [writes EXCEPT ![s][i].stage = "done"]
          /\ result' = [result EXCEPT ![s] = resolved(writes[s][i].room)]
          /\ UNCHANGED <<out, pc>>
  /\ UNCHANGED <<deleting, User, nextUserId, body, Room, Message, nextRoomId, nextMsgId,
                 userName, op, arg, roomCode, room>>

(* dbhelper.getMessageById. *)
getMessageById(messageId) == findById(Message, messageId)

MessageIds == 1..MaxMessages

isAuthorAlways(message, name) == TRUE

(* deleteMessage's test of the stored message against the socket's *)
(* userName: message?.author?.userName === userName.               *)
isAuthor(message, name) == message # null /\ message.author.userName = name

(* rooms:messages:delete up to dbhelper.deleteMessageById: the store       *)
(* answers getMessageById; a message of another author (or none) is        *)
(* reported and the handler returns.                                       *)
deleteMessage(s, messageId, roomId) ==
  /\ pc[s] = "idle"
  /\ op' = [op EXCEPT ![s] = "delete"]
  /\ IF isAuthor(getMessageById(messageId), userName[s])
     THEN /\ pc' = [pc EXCEPT ![s] = "delete"]
          /\ deleting' = [deleting EXCEPT ![s] = [messageId |-> messageId, roomId |-> roomId]]
          /\ out' = [out EXCEPT ![s] = {}]
     ELSE /\ out' = [out EXCEPT ![s] = {"error"}]
          /\ UNCHANGED <<pc, deleting>>
  /\ UNCHANGED <<Room, Message, nextRoomId, nextMsgId, userName, arg, roomCode, room,
                 writes, result, User, nextUserId, body>>

(* The Message collection after findByIdAndDelete(messageId). *)
deletedAll(coll, messageId) == {}

deleted(coll, messageId) == {m \in coll : m._id # messageId}

(* dbhelper.deleteMessageById: Message.findByIdAndDelete. *)
deleteMessageById(s) ==
  /\ pc[s] = "delete"
  /\ Message' = deleted(Message, deleting[s].messageId)
  /\ pc' = [pc EXCEPT ![s] = "deleteEmit"]
  /\ UNCHANGED <<Room, nextRoomId, nextMsgId, userName, op, arg, roomCode, room,
                 writes, result, deleting, User, nextUserId, body, out>>

(* deleteMessage's last store call: dbhelper.getRoomMessages(roomId); the *)
(* room's messages are emitted, or error when the room is null.           *)
deleteEmit(s) ==
  /\ pc[s] = "deleteEmit"
  /\ out' = [out EXCEPT ![s] =
               IF getRoomMessages(deleting[s].roomId) # null THEN {"messages"} ELSE {"error"}]
  /\ pc' = [pc EXCEPT ![s] = "idle"]
  /\ deleting' = [deleting EXCEPT ![s] = null]
  /\ UNCHANGED <<Room, Message, nextRoomId, nextMsgId, userName, op, arg, roomCode,
                 room, writes, result, User, nextUserId, body>>

(* The socket server's room handlers. *)
Next ==
  \E s \in Sockets :
    \/ createRoom(s)
    \/ generateUniqueRoomCode(s)
    \/ insertRoom(s)
    \/ \E code \in Codes : joinRoom(s, code)
    \/ joinPush(s)
    \/ \E code \in Codes : leaveRoom(s, code)

(* The socket server's message handlers. *)
NextMsg ==
  \E s \in Sockets :
    \/ \E roomId \in RoomIds, messages \in Batches : sendMessageToRoom(s, roomId, messages)
    \/ \E i \in 1..MaxBatch : messageCreate(s, i)
    \/ \E i \in 1..MaxBatch : messagePush(s, i)
    \/ \E i \in 1..MaxBatch : messageReply(s, i)

(* rooms:messages: dbhelper.getRoomMessages and the handler's then, which *)
(* emits messages for a room that exists and, having no return or else,  *)
(* emits error after it in every case.                                   *)
roomsMessages(s, roomId) ==
  /\ pc[s] = "idle"
  /\ op' = [op EXCEPT ![s] = "messages"]
  /\ out' = [out EXCEPT ![s] =
               (IF getRoomMessages(roomId) # null THEN {"messages"} ELSE {})
                 \cup {"error"}]
  /\ UNCHANGED <<Room, Message, nextRoomId, nextMsgId, userName, pc, arg, roomCode,
                 room, writes, result, deleting, User, nextUserId, body>>

(* The socket server's handler that reads a room's messages. *)
NextRead ==
  \E s \in Sockets, roomId \in RoomIds : roomsMessages(s, roomId)

(* One rooms:messages:send request at a time, by socket 1. *)
NextPost ==
  \/ \E roomId \in RoomIds, messages \in Batches : sendMessageToRoom(1, roomId, messages)
  \/ \E i \in 1..MaxBatch : messageCreate(1, i)
  \/ \E i \in 1..MaxBatch : messagePush(1, i)
  \/ \E i \in 1..MaxBatch : messageReply(1, i)

(* The socket server's delete handler. *)
NextDel ==
  \E s \in Sockets :
    \/ \E messageId \in MessageIds, roomId \in RoomIds : deleteMessage(s, messageId, roomId)
    \/ deleteMessageById(s)
    \/ deleteEmit(s)

(* ---- the REST server (src/server.ts 387-961) with dbhelper.ts ---- *)
(* ---- (src/unnamed/part_005)                                     ---- *)

(* The user ids a REST client may send as req.body.userId. *)
userIds == {user(c) : c \in Clients}

(* req.body.userId as the handlers see it: a user id, or nothing. *)
bodyUserIds == userIds \cup {null}

givenAlways(v) == TRUE

(* The handlers' test of a request field: v != null. *)
given(v) == v # null

(* POST /rooms: a code is drawn and the room is inserted with it; a request *)
(* without userId is answered 400.                                          *)
postRooms(c, userId) ==
  /\ pc[c] = "idle"
  /\ op' = [op EXCEPT ![c] = "create"]
  /\ IF given(userId)
     THEN /\ nextRoomId <= MaxRooms
          /\ \E code \in nanoid(CodeLength) : Room' = Room \cup {newRoom(userId, code)}
          /\ nextRoomId' = nextRoomId + 1
          /\ out' = [out EXCEPT ![c] = {"200"}]
     ELSE /\ out' = [out EXCEPT ![c] = {"400"}]
          /\ UNCHANGED <<Room, nextRoomId>>
  /\ UNCHANGED <<deleting, User, nextUserId, body, Message, nextMsgId, userName, pc, arg, roomCode, room, writes, result>>

(* POST /rooms/:roomCode/join: dbhelper.joinRoom, and 200 with the room *)
(* the update returned (null when no room matched); a request without  *)
(* userId is answered 400.                                              *)
postRoomsJoin(c, userId, code) ==
  /\ pc[c] = "idle"
  /\ op' = [op EXCEPT ![c] = "join"]
  /\ IF given(userId)
     THEN /\ LET found == getRoomInfo(code)
             IN IF found = null
                THEN Room' = Room
                ELSE /\ Len(found.participants) < MaxParticipants
                     /\ Room' = replace(Room, found, joinedRoom(found, userId))
          /\ out' = [out EXCEPT ![c] = {"200"}]
     ELSE /\ out' = [out EXCEPT ![c] = {"400"}]
          /\ UNCHANGED Room
  /\ UNCHANGED <<deleting, User, nextUserId, body, Message, nextRoomId, nextMsgId, userName, pc, arg, roomCode, room,
                 writes, result>>

(* POST /rooms/:roomCode/leave, dbhelper.leaveRoom's first store call: the *)
(* user is pulled; an emptied room goes on to deleteOne, anything else     *)
(* resolves and is answered 200; a request without userId is answered 400. *)
postRoomsLeave(c, userId, code) ==
  /\ pc[c] = "idle"
  /\ op' = [op EXCEPT ![c] = "leave"]
  /\ IF given(userId)
     THEN LET found == getRoomInfo(code)
              updated == IF found = null THEN null ELSE leftRoom(found, userId)
          IN /\ Room' = IF found = null THEN Room ELSE replace(Room, found, updated)
             /\ IF updated # null /\ Len(updated.participants) = 0
                THEN /\ pc' = [pc EXCEPT ![c] = "leaveDelete"]
                     /\ room' = [room EXCEPT ![c] = updated]
                     /\ out' = [out EXCEPT ![c] = {}]
                ELSE /\ out' = [out EXCEPT ![c] = {"200"}]
                     /\ UNCHANGED <<pc, room>>
     ELSE /\ out' = [out EXCEPT ![c] = {"400"}]
          /\ UNCHANGED <<Room, pc, room>>
  /\ UNCHANGED <<deleting, User, nextUserId, body, Message, nextRoomId, nextMsgId, userName, arg, roomCode, writes, result>>

(* dbhelper.leaveRoom's second store call: Room.deleteOne by the _id of *)
(* the emptied room; then the promise resolves and 200 is answered.     *)
leaveDelete(c) ==
  /\ pc[c] = "leaveDelete"
  /\ Room' = {d \in Room : d._id # room[c]._id}
  /\ out' = [out EXCEPT ![c] = {"200"}]
  /\ pc' = [pc EXCEPT ![c] = "idle"]
  /\ room' = [room EXCEPT ![c] = null]
  /\ UNCHANGED <<deleting, User, nextUserId, body, Message, nextRoomId, nextMsgId, userName, op, arg, roomCode, writes, result>>

(* The REST server's room handlers. *)
NextRest ==
  \E c \in Clients :
    \/ \E userId \in bodyUserIds : postRooms(c, userId)
    \/ \E userId \in bodyUserIds, code \in Codes : postRoomsJoin(c, userId, code)
    \/ \E userId \in bodyUserIds, code \in Codes : postRoomsLeave(c, userId, code)
    \/ leaveDelete(c)

includesAlways(array, v) == TRUE

(* room.participants.includes(userId). *)
includes(array, v) == \E i \in 1..Len(array) : array[i] = v

(* GET /rooms/:roomId/messages: dbhelper.getRoomMessages, then 200 with *)
(* the room's messages when the room exists and its participants       *)
(* include req.body.userId, and 401 otherwise.                          *)
getRoomsMessages(c, userId, roomId) ==
  /\ pc[c] = "idle"
  /\ op' = [op EXCEPT ![c] = "messages"]
  /\ LET found == getRoomMessages(roomId)
     IN out' = [out EXCEPT ![c] =
                  IF found # null /\ includes(found.participants, userId)
                  THEN {"200"} ELSE {"401"}]
  /\ UNCHANGED <<Room, Message, nextRoomId, nextMsgId, userName, pc, arg, roomCode,
                 room, writes, result, deleting, User, nextUserId, body>>

(* The REST server's route to read a room's messages. *)
NextRestGet ==
  \E c \in Clients, userId \in bodyUserIds, roomId \in RoomIds :
    getRoomsMessages(c, userId, roomId)

(* DELETE /messages: 400 without messageId; else                        *)
(* dbhelper.deleteMessageById (Message.findByIdAndDelete) and, when the *)
(* store has answered, 200.                                             *)
deleteMessages(c, messageId) ==
  /\ pc[c] = "idle"
  /\ op' = [op EXCEPT ![c] = "deleteMessages"]
  /\ IF messageId # noId
     THEN /\ Message' = deleted(Message, messageId)
          /\ out' = [out EXCEPT ![c] = {"200"}]
     ELSE /\ out' = [out EXCEPT ![c] = {"400"}]
          /\ UNCHANGED Message
  /\ UNCHANGED <<Room, nextRoomId, nextMsgId, userName, pc, arg, roomCode, room,
                 writes, result, deleting, User, nextUserId, body>>

(* The REST delete route, with a socket that posts one message at a time. *)
NextRestDel ==
  \/ \E c \in Clients, messageId \in MessageIds \cup {noId} :
       deleteMessages(c, messageId)
  \/ \E roomId \in RoomIds, m \in MessageData : sendMessageToRoom(2, roomId, <<m>>)
  \/ messageCreate(2, 1)
  \/ messagePush(2, 1)
  \/ messageReply(2, 1)

(* ---- store failures during POST /rooms/:roomCode/leave ---- *)

(* dbhelper.leaveRoom's findOneAndUpdate rejects: the catch of the chain *)
(* calls reject(), and the route's catch answers 400.                    *)
postRoomsLeaveRejects(c, userId, code) ==
  /\ pc[c] = "idle"
  /\ op' = [op EXCEPT ![c] = "leave"]
  /\ out' = [out EXCEPT ![c] = {"400"}]
  /\ UNCHANGED <<Room, Message, nextRoomId, nextMsgId, userName, pc, arg, roomCode,
                 room, writes, result, deleting, User, nextUserId, body>>

(* dbhelper.leaveRoom's deleteOne rejects: the promise of deleteOne is   *)
(* not returned from the then it is created in and has no catch of its   *)
(* own, so neither resolve nor reject is called and the promise the      *)
(* route waits for stays pending.                                        *)
leaveDeleteRejects(c) ==
  /\ pc[c] = "leaveDelete"
  /\ pc' = [pc EXCEPT ![c] = "pending"]
  /\ room' = [room EXCEPT ![c] = null]
  /\ UNCHANGED <<Room, Message, nextRoomId, nextMsgId, userName, op, arg, roomCode,
                 writes, result, deleting, User, nextUserId, body, out>>

NextRestFail ==
  \E c \in Clients :
    \/ \E userId \in userIds, code \in Codes : postRoomsLeaveRejects(c, userId, code)
    \/ leaveDeleteRejects(c)

(* ---- the REST server's user routes (src/server.ts 754-943) ---- *)

(* A string field a request body does not carry. *)
undefined == "undefined"

(* The names and passwords a client may send. *)
Names == {"New Test"}
Passwords == {"cdef"}

(* The profile ids a client may send as req.body.userId. *)
ProfileIds == 1..MaxUsers

(* req.body.updatedProperties: a name and an email without a password, *)
(* or a password alone.                                                *)
UpdatedProperties ==
  {[name |-> n, email |-> e, password |-> undefined] : n \in Names, e \in Emails}
    \cup {[name |-> undefined, email |-> undefined, password |-> p] : p \in Passwords}

(* dbhelper.getUserProfileByEmail: User.findOne({ email }). No profile *)
(* lacks an email, so a filter without one finds nothing.              *)
getUserProfileByEmail(email) == findOne({u \in User : u.email = email})

(* POST /users up to its first store call: 400 without name, email or *)
(* password, 400 when a profile has the email, else on to the hash.   *)
postUsers(c, name, email, password) ==
  /\ pc[c] = "idle"
  /\ op' = [op EXCEPT ![c] = "signup"]
  /\ IF email # undefined /\ name # undefined /\ password # undefined
     THEN IF getUserProfileByEmail(email) # null
          THEN /\ out' = [out EXCEPT ![c] = {"400"}]
               /\ UNCHANGED <<pc, body>>
          ELSE /\ nextUserId <= MaxUsers
               /\ pc' = [pc EXCEPT ![c] = "createUser"]
               /\ body' = [body EXCEPT ![c] =
                             [name |-> name, email |-> email, password |-> password]]
               /\ out' = [out EXCEPT ![c] = {}]
     ELSE /\ out' = [out EXCEPT ![c] = {"400"}]
          /\ UNCHANGED <<pc, body>>
  /\ UNCHANGED <<Room, Message, nextRoomId, nextMsgId, userName, arg, roomCode,
                 room, writes, result, deleting, User, nextUserId>>

(* dbhelper.createUserProfile's User.create, after bcrypt.hash. *)
createUserProfile(c) ==
  /\ pc[c] = "createUser"
  /\ User' = User \cup {[_id |-> nextUserId, name |-> body[c].name,
                         email |-> body[c].email,
                         password |-> hash(body[c].password)]}
  /\ nextUserId' = nextUserId + 1
  /\ pc' = [pc EXCEPT ![c] = "createdUser"]
  /\ UNCHANGED <<Room, Message, nextRoomId, nextMsgId, userName, op, arg,
                 roomCode, room, writes, result, deleting, body, out>>

(* createUserProfile's User.findOne({ email }) and the answer: 200 with *)
(* the profile found, 400 when there is none.                           *)
createdUser(c) ==
  /\ pc[c] = "createdUser"
  /\ out' = [out EXCEPT ![c] =
               IF getUserProfileByEmail(body[c].email) # null
               THEN {"200"} ELSE {"400"}]
  /\ pc' = [pc EXCEPT ![c] = "idle"]
  /\ body' = [body EXCEPT ![c] = null]
  /\ UNCHANGED <<Room, Message, nextRoomId, nextMsgId, userName, op, arg,
                 roomCode, room, writes, result, deleting, User, nextUserId>>

(* The handler's `updated`: the name and email that were sent, and the *)
(* hash of the password if one was sent.                               *)
updated(updatedProperties) ==
  [updatedProperties EXCEPT
     !.password = IF @ # undefined THEN hash(@) ELSE undefined]

(* PUT /users up to its first store call: 400 without userId or        *)
(* updatedProperties, 400 when a profile has the email of req.body.email, *)
(* else on to the update.                                              *)
putUsers(c, userId, email, updatedProperties) ==
  /\ pc[c] = "idle"
  /\ op' = [op EXCEPT ![c] = "update"]
  /\ IF userId # noId /\ updatedProperties # null
     THEN IF getUserProfileByEmail(email) # null
          THEN /\ out' = [out EXCEPT ![c] = {"400"}]
               /\ UNCHANGED <<pc, body>>
          ELSE /\ pc' = [pc EXCEPT ![c] = "updateUser"]
               /\ body' = [body EXCEPT ![c] =
                             [userId |-> userId,
                              updatedProperties |-> updated(updatedProperties)]]
               /\ out' = [out EXCEPT ![c] = {}]
     ELSE /\ out' = [out EXCEPT ![c] = {"400"}]
          /\ UNCHANGED <<pc, body>>
  /\ UNCHANGED <<Room, Message, nextRoomId, nextMsgId, userName, arg, roomCode,
                 room, writes, result, deleting, User, nextUserId>>

(* $set: the fields of `properties` that were sent replace the profile's. *)
set(profile, properties) ==
  [_id |-> profile._id,
   name |-> IF properties.name # undefined THEN properties.name ELSE profile.name,
   email |-> IF properties.email # undefined THEN properties.email ELSE profile.email,
   password |-> IF properties.password # undefined THEN properties.password
                ELSE profile.password]

(* dbhelper.updateUserProfile: User.findByIdAndUpdate(userId, { $set }), *)
(* answered 200 with the profile it returns (null when there is none).   *)
updateUserProfile(c) ==
  /\ pc[c] = "updateUser"
  /\ User' = {IF u._id = body[c].userId
              THEN set(u, body[c].updatedProperties) ELSE u : u \in User}
  /\ out' = [out EXCEPT ![c] = {"200"}]
  /\ pc' = [pc EXCEPT ![c] = "idle"]
  /\ body' = [body EXCEPT ![c] = null]
  /\ UNCHANGED <<Room, Message, nextRoomId, nextMsgId, userName, op, arg,
                 roomCode, room, writes, result, deleting, nextUserId>>

NextUsers ==
  \E c \in Clients :
    \/ \E name \in Names \cup {undefined}, email \in Emails \cup {undefined},
          password \in Passwords \cup {undefined} :
         postUsers(c, name, email, password)
    \/ createUserProfile(c)
    \/ createdUser(c)
    \/ \E userId \in ProfileIds \cup {noId}, email \in Emails \cup {undefined},
          updatedProperties \in UpdatedProperties \cup {null} :
         putUsers(c, userId, email, updatedProperties)
    \/ updateUserProfile(c)

(* The life of a room across deletion: client 1 uses the REST room routes *)
(* (create, join, leave with its delete), socket 2 posts a message.       *)
NextLife ==
  \/ \E userId \in userIds : postRooms(1, userId)
  \/ \E userId \in userIds, code \in Codes : postRoomsJoin(1, userId, code)
  \/ \E userId \in userIds, code \in Codes : postRoomsLeave(1, userId, code)
  \/ leaveDelete(1)
  \/ \E roomId \in RoomIds, m \in MessageData :
       m.title = "m1" /\ sendMessageToRoom(2, roomId, <<m>>)
  \/ messageCreate(2, 1)
  \/ messagePush(2, 1)
  \/ messageReply(2, 1)

Spec == Init /\ [][Next]_vars

SpecMsg == Init /\ [][NextMsg]_vars

SpecDel == Init /\ [][NextDel]_vars

SpecPost == Init /\ [][NextPost]_vars

SpecRead == Init /\ [][NextRead \/ NextDel]_vars

SpecLife == Init /\ [][NextLife]_vars

SpecRest == Init /\ [][NextRest]_vars

SpecRestGet == Init /\ [][NextRest \/ NextRestGet]_vars

SpecAll == Init /\ [][Next \/ NextRest]_vars

SpecUsers == Init /\ [][NextUsers]_vars

SpecRestDel == Init /\ [][NextRestDel]_vars

(* The REST room handlers with a store whose calls may fail; the store *)
(* answers every call it was sent, with a result or with an error.     *)
SpecRestFail ==
  /\ Init
  /\ [][NextRest \/ NextRestFail]_vars
  /\ \A c \in Clients : WF_vars(leaveDelete(c) \/ leaveDeleteRejects(c))

(* The code generator's turn is taken whenever it stays enabled: the store *)
(* answers every query and the event loop runs every pending callback.     *)
SpecFair == Spec /\ \A s \in Sockets : WF_vars(generateUniqueRoomCode(s))

(* ---- the claims ---- *)

count(seq, v) == Cardinality({i \in 1..Len(seq) : seq[i] = v})

(* C1: no two rooms that exist in the store at the same time have the same *)
(* entryCode, also when createRoom requests interleave at their store calls. *)
C1_EntryCodeUnique ==
  \A r1, r2 \in Room : r1.entryCode = r2.entryCode => r1 = r2

(* C2: every room that exists in the store has at least one participant. *)
C2_NoEmptyRoom ==
  \A r \in Room : Len(r.participants) >= 1

isLastParticipant(code, u) ==
  LET r == getRoomInfo(code)
  IN r # null /\ r.participants # <<>> /\ Range(r.participants) = {u}

(* C3: once leaveRoom has returned for the last remaining participant of a *)
(* room, getRoomInfo with the room's entryCode returns null.               *)
C3_LastLeaveDeletesRoom ==
  [][\A s \in Sockets, code \in Codes :
       (leaveRoom(s, code) /\ isLastParticipant(code, user(s)))
         => (getRoomInfo(code) = null)']_vars

(* C4: joinRoom by a participant whose display name is already in the room *)
(* reports an error and no success and leaves the participants as they were. *)
C4_DuplicateJoinRejected ==
  [][\A s \in Sockets :
       (/\ joinPush(s)
        /\ getRoomInfo(arg[s]) # null
        /\ hasUserName(getRoomInfo(arg[s]), userName[s]))
         => (Room' = Room /\ "error" \in out'[s] /\ "room:join" \notin out'[s])]_vars

(* C5: a successful createRoom adds exactly one room, whose entryCode has  *)
(* length 4, whose participants are exactly the creator and whose messages *)
(* are empty; the rooms that existed before are unchanged.                 *)
C5_CreateRoomAddsOneRoom ==
  [][\A s \in Sockets :
       insertRoom(s) =>
         \E r \in Room' :
           /\ r \notin Room
           /\ Room' = Room \cup {r}
           /\ Len(r.entryCode) = 4
           /\ r.participants = <<user(s)>>
           /\ r.messages = <<>>
           /\ "room:create" \in out'[s]]_vars

C5_Witness ==
  \E s \in Sockets :
    /\ op[s] = "create" /\ pc[s] = "idle" /\ "room:create" \in out[s]
    /\ Cardinality(Room) >= 2
    /\ \E r \in Room : r.messages # <<>>

(* C6: the room-code generator always terminates. *)
C6_GeneratorTerminates ==
  \A s \in Sockets : (pc[s] = "gen") ~> (pc[s] # "gen")

(* C7: whenever the generator returns a code, the store query it made for *)
(* that code found no room with it.                                       *)
C7_ReturnedCodeWasFree ==
  [][\A s \in Sockets :
       (generateUniqueRoomCode(s) /\ pc'[s] = "insert")
         => (roomCode'[s] = roomCode[s] /\ getRoomInfo(roomCode'[s]) = null)]_vars

C7_Witness ==
  \E s \in Sockets :
    /\ pc[s] = "insert"
    /\ Room # {}
    /\ getRoomInfo(roomCode[s]) = null

(* C8: joinRoom by a participant who is not yet a member of an existing    *)
(* room adds that participant once, keeps the earlier participants, the    *)
(* entryCode and the messages, and changes no other room.                  *)
C8_JoinAddsParticipant ==
  [][\A s \in Sockets :
       LET found == getRoomInfo(arg[s])
       IN (joinPush(s) /\ found # null /\ user(s) \notin Range(found.participants))
            => \E r \in Room' :
                 /\ r._id = found._id
                 /\ r.entryCode = found.entryCode
                 /\ r.messages = found.messages
                 /\ Len(r.participants) = Len(found.participants) + 1
                 /\ \A u \in Users :
                      count(r.participants, u) =
                        count(found.participants, u) + (IF u = user(s) THEN 1 ELSE 0)
                 /\ Room' \ {r} = Room \ {found}]_vars

C8_Witness ==
  \E s \in Sockets :
    /\ op[s] = "join" /\ pc[s] = "idle" /\ out[s] = {"room:join"}
    /\ Cardinality(Room) >= 2
    /\ \E r \in Room :
         /\ user(s) \in Range(r.participants)
         /\ Len(r.participants) >= 2
         /\ r.messages # <<>>

(* C9: leaveRoom by a member of a room that has another participant keeps *)
(* the room, removes the member, and leaves the remaining participants,   *)
(* the entryCode, the messages and all other rooms unchanged.             *)
leftOnly(found, u, after) ==
  \E r \in after :
    /\ r._id = found._id
    /\ r.entryCode = found.entryCode
    /\ r.messages = found.messages
    /\ u \notin Range(r.participants)
    /\ r.participants = SelectSeq(found.participants, LAMBDA x : x # u)
    /\ after \ {r} = Room \ {found}

hasOther(found, u) ==
  /\ found # null
  /\ u \in Range(found.participants)
  /\ Range(found.participants) # {u}

C9_LeaveRemovesOnlyTheLeaver ==
  [][\A c \in Clients, code \in Codes :
       /\ (leaveRoom(c, code) /\ hasOther(getRoomInfo(code), user(c)))
            => leftOnly(getRoomInfo(code), user(c), Room')
       /\ \A userId \in userIds :
            (postRoomsLeave(c, userId, code) /\ hasOther(getRoomInfo(code), userId))
              => (leftOnly(getRoomInfo(code), userId, Room') /\ pc'[c] = "idle")]_vars

C9_Witness ==
  \E c \in Clients :
    /\ op[c] = "leave" /\ pc[c] = "idle" /\ out[c] = {"200"}
    /\ Cardinality(Room) >= 2
    /\ \E r \in Room :
         /\ r.messages # <<>>
         /\ r.participants # <<>>
         /\ Len(r.participants) < 2

(* C10: joinRoom with an entryCode that matches no room fails: the caller *)
(* gets an error and no success, and no room is created or modified.      *)
C10_JoinMissingRoomFails ==
  [][\A c \in Clients, userId \in userIds, code \in Codes :
       (postRoomsJoin(c, userId, code) /\ getRoomInfo(code) = null)
         => (Room' = Room /\ "400" \in out'[c] /\ "200" \notin out'[c])]_vars

(* C11: leaveRoom with an entryCode that matches no room fails: the caller *)
(* gets an error and no success, and the store is unchanged.               *)
C11_LeaveMissingRoomFails ==
  [][\A c \in Clients, userId \in userIds, code \in Codes :
       (postRoomsLeave(c, userId, code) /\ getRoomInfo(code) = null)
         => (Room' = Room /\ Message' = Message
             /\ "400" \in out'[c] /\ "200" \notin out'[c])]_vars

(* A user who is no participant of the room that code names. *)
isNonMember(code, u) ==
  /\ getRoomInfo(code) # null
  /\ u \notin Range(getRoomInfo(code).participants)

(* C12: leaveRoom by a user who is no participant of an existing room is *)
(* a no-op that raises no error: the request is answered with success    *)
(* and makes no store call that changes or deletes the room.             *)
C12_NonMemberLeaveIsNoOp ==
  [][\A c \in Clients, userId \in userIds, code \in Codes :
       (postRoomsLeave(c, userId, code) /\ isNonMember(code, userId))
         => (Room' = Room /\ out'[c] = {"200"} /\ pc'[c] = "idle")]_vars

(* C16: a create, join or leave request without a participant identity is *)
(* answered with a client error before any store call: no room and no     *)
(* message is created, changed or deleted, and no store call is pending.  *)
C16_MissingInputIsRejected ==
  [][\A c \in Clients, code \in Codes :
       (\/ postRooms(c, null)
        \/ postRoomsJoin(c, null, code)
        \/ postRoomsLeave(c, null, code))
         => (/\ Room' = Room
             /\ Message' = Message
             /\ nextRoomId' = nextRoomId
             /\ out'[c] = {"400"}
             /\ pc'[c] = "idle")]_vars

C16_Witness ==
  \E c \in Clients :
    /\ op[c] = "create"
    /\ out[c] = {"400"}
    /\ pc[c] = "idle"
    /\ Room # {}

(* The entries of a populated message list other than those with an id *)
(* in ids.                                                             *)
without(messages, ids) == SelectSeq(messages, LAMBDA m : m._id \notin ids)

(* A populated message list holds the message id with the content data. *)
holds(messages, id, data) ==
  \E k \in 1..Len(messages) :
    /\ messages[k]._id = id
    /\ messages[k].title = data.title
    /\ messages[k].imageData = data.imageData
    /\ messages[k].background = data.background

(* C13: when a request of two messages m1, m2 to an existing room ends *)
(* with success, getRoomMessages on that room returns the N messages   *)
(* it held besides them, unchanged, and m1 and m2 with their title,    *)
(* imageData and background: N + 2 messages. Each push of the request  *)
(* leaves the other messages of the list as they were, and at the      *)
(* reply that completes the request the list holds both messages.      *)
C13_PostedMessagesAreReturned ==
  [][\A s \in Sockets, i \in 1..MaxBatch :
       /\ (messagePush(s, i) /\ Len(writes[s]) = 2)
            => LET roomId == writes[s][i].roomId
                   before == getRoomMessages(roomId)
                   after == findByIdPopulated(Room', Message', roomId)
               IN before # null
                    => /\ after # null
                       /\ without(after.messages, {writes[s][i]._id}) = before.messages
                       /\ holds(after.messages, writes[s][i]._id, writes[s][i].message)
       /\ (/\ messageReply(s, i)
           /\ Len(writes[s]) = 2
           /\ pc'[s] = "idle" /\ out'[s] = {"messages"})
            => LET roomId == writes[s][1].roomId
                   mine == {writes[s][1]._id, writes[s][2]._id}
                   after == getRoomMessages(roomId)
               IN /\ after # null
                  /\ Len(after.messages) = Len(without(after.messages, mine)) + 2
                  /\ holds(after.messages, writes[s][1]._id, writes[s][1].message)
                  /\ holds(after.messages, writes[s][2]._id, writes[s][2].message)]_vars

C13_Witness ==
  \E s \in Sockets :
    /\ pc[s] = "send"
    /\ Len(writes[s]) = 2
    /\ \E i, j \in 1..2 : writes[s][i].stage = "done" /\ writes[s][j].stage = "reply"
    /\ getRoomMessages(writes[s][1].roomId) # null
    /\ Len(getRoomMessages(writes[s][1].roomId).messages) = 3
    /\ writes[s][1].message # writes[s][2].message

(* C14: when deleteMessageById removes a stored message that a room's *)
(* message list shows, getRoomMessages on that room afterwards returns *)
(* the list without that message, one entry shorter, every other       *)
(* message unchanged.                                                  *)
C14_DeletedMessageIsGone ==
  [][\A s \in Sockets, roomId \in RoomIds :
       (/\ deleteMessageById(s)
        /\ getRoomMessages(roomId) # null
        /\ \E k \in 1..Len(getRoomMessages(roomId).messages) :
             getRoomMessages(roomId).messages[k]._id = deleting[s].messageId)
         => LET id == deleting[s].messageId
                before == getRoomMessages(roomId).messages
                after == findByIdPopulated(Room', Message', roomId).messages
            IN /\ \A k \in 1..Len(after) : after[k]._id # id
               /\ Len(after) = Len(before) - 1
               /\ after = without(before, {id})]_vars

C14_Witness ==
  \E s \in Sockets :
    /\ pc[s] = "deleteEmit"
    /\ getMessageById(deleting[s].messageId) = null
    /\ getRoomMessages(deleting[s].roomId) # null
    /\ deleting[s].messageId \in Range(findById(Room, deleting[s].roomId).messages)
    /\ Len(getRoomMessages(deleting[s].roomId).messages) = 1

(* C15: a request to post messages by a user who is no participant of *)
(* the target room creates no Message record and adds no reference to *)
(* the room's messages.                                               *)
C15_NonMemberCannotPost ==
  [][\A s \in Sockets, i \in 1..MaxBatch :
       (/\ messageCreate(s, i) \/ messagePush(s, i)
        /\ findById(Room, writes[s][i].roomId) # null
        /\ user(s) \notin Range(findById(Room, writes[s][i].roomId).participants))
         => (Message' = Message /\ Room' = Room)]_vars

(* C17: every request eventually ends with an answer to its caller, a *)
(* success or an error, also when a store call it makes fails.        *)
C17_EveryRequestIsAnswered ==
  \A c \in Clients : (pc[c] # "idle") ~> (pc[c] = "idle" /\ out[c] # {})

(* The _ids of the stored rooms. *)
roomIds(rooms) == {r._id : r \in rooms}

(* C18: a deleted room never exists again: no step brings back the _id of *)
(* a room that was stored and is gone; every room a step adds is a new    *)
(* room with a fresh _id, its creator as only participant and no          *)
(* messages, whatever entryCode it was issued.                            *)
C18_DeletedIsTerminal ==
  [][/\ \A id \in RoomIds :
          (id < nextRoomId /\ id \notin roomIds(Room)) => id \notin roomIds(Room')
     /\ \A r \in Room' :
          r._id \notin roomIds(Room)
            => (/\ r._id = nextRoomId
                /\ Len(r.participants) = 1
                /\ r.participants[1] \in userIds
                /\ r.messages = <<>>)]_vars

C18_Witness ==
  /\ User = seededUsers
  /\ 1 \notin roomIds(Room)
  /\ \E m \in Message : m.room = 1
  /\ \E r \in Room :
       /\ r._id = 2
       /\ r.entryCode = seededCode
       /\ r.messages = <<>>
       /\ Len(r.participants) = 1

inUse(email) == \E u \in User : u.email = email

(* An email address that a profile other than userId's has. *)
inUseByOther(email, userId) == \E u \in User : u.email = email /\ u._id # userId

(* C20: a signup or a profile update that supplies an email address    *)
(* already used by an existing profile is answered with an error and   *)
(* leaves every user profile unchanged: the write of a signup whose    *)
(* email a profile has, and the write of an update whose               *)
(* updatedProperties.email another profile has, do not happen, and the *)
(* update is answered 400.                                             *)
C20_UsedEmailIsRejected ==
  [][\A c \in Clients :
       /\ (createUserProfile(c) /\ inUse(body[c].email)) => User' = User
       /\ (updateUserProfile(c)
             /\ inUseByOther(body[c].updatedProperties.email, body[c].userId))
            => (User' = User /\ out'[c] = {"400"})]_vars

(* C21: a delete with a messageId that matches no Message record fails *)
(* with an error reported to the caller and leaves all messages and    *)
(* rooms unchanged.                                                    *)
C21_DeleteOfMissingMessageFails ==
  [][\A c \in Clients, messageId \in MessageIds :
       (deleteMessages(c, messageId) /\ getMessageById(messageId) = null)
         => (out'[c] = {"400"} /\ Message' = Message /\ Room' = Room)]_vars

(* C22: a room record is deleted only while its participant set is empty: *)
(* the deleteOne of a leaveRoom that removed the last participant never   *)
(* removes a room that a joinRoom has entered in between.                 *)
C22_OnlyEmptyRoomIsDeleted ==
  [][\A c \in Clients :
       leaveDelete(c) => \A r \in Room : r \notin Room' => r.participants = <<>>]_vars

(* C23: a room's participants contain each display name at most once: a *)
(* joinRoom whose check found no participant of its name (no error was  *)
(* reported) does not push the name into a room that has it by then.    *)
C23_NameJoinsOnce ==
  [][\A s \in Sockets :
       (joinPush(s) /\ out[s] = {} /\ getRoomInfo(arg[s]) # null)
         => ~hasUserName(getRoomInfo(arg[s]), userName[s])]_vars

(* C24: two joinRoom requests by distinct participants on the same room *)
(* that run concurrently both take effect: every push keeps the         *)
(* participants the room has by then, those pushed by a concurrent join *)
(* included, and adds its own; a join still in flight stays in flight.  *)
C24_ConcurrentJoinsBothTakeEffect ==
  [][\A s \in Sockets :
       LET found == getRoomInfo(arg[s])
       IN (joinPush(s) /\ found # null)
            => LET after == findById(Room', found._id)
               IN /\ after # null
                  /\ Range(after.participants) = Range(found.participants) \cup {user(s)}
                  /\ \A t \in Sockets \ {s} :
                       pc[t] = "joinPush" => (pc'[t] = "joinPush" /\ arg'[t] = arg[t])]_vars

(* One join has completed while the other, by a participant of another *)
(* name, is still in flight on the same room.                          *)
C24_Witness ==
  \E s, t \in Sockets :
    /\ userName[s] # userName[t]
    /\ op[s] = "join" /\ pc[s] = "idle" /\ out[s] = {"room:join"}
    /\ pc[t] = "joinPush" /\ out[t] = {}
    /\ \E r \in Room :
         /\ r.entryCode = arg[t]
         /\ Range(r.participants) = {user(s)}

(* C25: the message list in the response to one request of k messages, *)
(* on a room holding N messages and with no other request in flight,   *)
(* has N + k entries, whatever the order in which the k writes and     *)
(* their replies complete: at the reply that completes the request the *)
(* room's list has the N + k entries, and the response shows them all. *)
C25_ResponseShowsAllWrites ==
  [][\A i \in 1..MaxBatch :
       (messageReply(1, i) /\ pc'[1] = "idle" /\ out'[1] = {"messages"})
         => Len(resolved(writes[1][i].room).messages)
              = Len(findById(Room, writes[1][i].roomId).messages)]_vars

(* C26: a leaveRoom that ends with an error reported to the caller leaves *)
(* the store as it was, and a leaveRoom by a current member of an         *)
(* existing room is reported as success, not as an error.                 *)
C26_LeaveErrorMeansNoChange ==
  [][\A s \in Sockets, code \in Codes :
       leaveRoom(s, code)
         => /\ "error" \in out'[s] => Room' = Room
            /\ (getRoomInfo(code) # null
                  /\ user(s) \in Range(getRoomInfo(code).participants))
                 => out'[s] = {"room:leave"}]_vars

(* C27: every socket request produces at most one kind of outcome for *)
(* its caller: its success event or an error event, never both.       *)
C27_OneKindOfOutcome ==
  \A s \in Sockets : "error" \in out[s] => out[s] = {"error"}

(* C28: a post that ends with an error because its roomId matches no *)
(* room has added no Message record: when the request completes with *)
(* error, none of the records its writes created is in the store.    *)
C28_FailedPostAddsNoMessage ==
  [][\A s \in Sockets, i \in 1..MaxBatch :
       (/\ messageReply(s, i)
        /\ pc'[s] = "idle" /\ out'[s] = {"error"}
        /\ findById(Room, writes[s][i].roomId) = null)
         => \A j \in 1..Len(writes[s]) : getMessageById(writes[s][j]._id) = null]_vars

(* C29: every message id listed in a room's messages refers to a Message *)
(* record that exists in the store and whose room field is that room.    *)
C29_RoomMessagesExist ==
  \A r \in Room :
    \A k \in 1..Len(r.messages) :
      \E m \in Message : m._id = r.messages[k] /\ m.room = r._id

(* C30: a socket delete request removes a message only when the socket's *)
(* userName equals the userName of the message's author; a request by    *)
(* any other user, or for a message that does not exist, deletes nothing *)
(* and is answered with an error.                                        *)
C30_OnlyAuthorDeletes ==
  [][\A s \in Sockets :
       /\ \A messageId \in MessageIds, roomId \in RoomIds :
            (/\ deleteMessage(s, messageId, roomId)
             /\ \/ getMessageById(messageId) = null
                \/ getMessageById(messageId).author.userName # userName[s])
              => /\ out'[s] = {"error"} /\ pc'[s] = "idle"
                 /\ Message' = Message /\ Room' = Room
       /\ deleteMessageById(s)
            => \A m \in Message \ Message' :
                 m._id = deleting[s].messageId /\ m.author.userName = userName[s]]_vars

(* A request for another author's message was answered with an error *)
(* and left the requester's own message in the store, while an       *)
(* author's own message has been removed.                            *)
C30_Witness ==
  \E s, t \in Sockets :
    /\ op[s] = "delete" /\ pc[s] = "idle" /\ out[s] = {"error"}
    /\ userName[s] # userName[t]
    /\ pc[t] = "deleteEmit"
    /\ getMessageById(deleting[t].messageId) = null
    /\ \E m \in Message : m.author.userName = userName[s]

====
